---------------------------- MODULE Spec2Model ----------------------------
(***************************************************************************)
(* Model of GpsModule (src/gpsSensor.py): the NMEA line framer, sentence   *)
(* classifier, field decoders and the fix record they mutate.              *)
(*                                                                         *)
(* Text is a sequence of one-character strings, so that split, startswith  *)
(* and slicing are computed as Python computes them.  Python floats are    *)
(* modelled as exact fixed-point integers (no rounding error):             *)
(*   latitude, longitude : units of 1/(60*Scale) degree                    *)
(*   speed               : units of 1/(1000*Scale) km/h                    *)
(*   hdop, altitude      : units of 1/Scale                                *)
(* None is the empty tuple <<>>, a present value v is <<v>>.               *)
(***************************************************************************)
EXTENDS Integers, Sequences, FiniteSets, TLC

\* Number of fractional decimal digits the fixed-point representation keeps.
FracDigits == 3
\* Number of getGpsDetails calls explored in one run.
MaxCalls == 2

RECURSIVE Pow10(_)
Pow10(n) == IF n <= 0 THEN 1 ELSE 10 * Pow10(n - 1)

Scale == Pow10(FracDigits)

None == <<>>
Some(v) == <<v>>
IsNone(x) == x = <<>>
Val(x) == x[1]

\* Let(v, F) is F(v) with v evaluated once (a local variable of the source).
Let(v, F(_)) == CHOOSE r \in {F(x) : x \in {v}} : TRUE

-----------------------------------------------------------------------------
(* Python built-ins used by the source *)

CRLF == <<"\r", "\n">>
Comma == <<",">>
Dot == <<".">>

DigitChars == <<"0", "1", "2", "3", "4", "5", "6", "7", "8", "9">>

IsDigit(c) == \E i \in 1..Len(DigitChars) : DigitChars[i] = c

DigitVal(c) == (CHOOSE i \in 1..Len(DigitChars) : DigitChars[i] = c) - 1

AllDigits(s) == \A i \in 1..Len(s) : IsDigit(s[i])

\* The number written by the first n characters of the digit string s.
RECURSIVE NatValUpTo(_, _)
NatValUpTo(s, n) ==
  IF n = 0 THEN 0 ELSE 10 * NatValUpTo(s, n - 1) + DigitVal(s[n])

NatVal(s) == NatValUpTo(s, Len(s))

\* str.startswith
startswith(s, p) == Len(s) >= Len(p) /\ SubSeq(s, 1, Len(p)) = p

\* Index of the first occurrence of sep in s, 0 when there is none.
find(s, sep) ==
  Let({i \in 1..(Len(s) - Len(sep) + 1) :
         s[i] = sep[1] /\ SubSeq(s, i, i + Len(sep) - 1) = sep},
      LAMBDA hits : IF hits = {} THEN 0
                    ELSE CHOOSE i \in hits : \A j \in hits : i <= j)

\* str.split(sep): always at least one element, the last one is the text
\* after the last separator (empty when the text ends with the separator).
RECURSIVE split(_, _)
split(s, sep) ==
  Let(find(s, sep), LAMBDA i :
    IF i = 0 THEN <<s>>
    ELSE <<SubSeq(s, 1, i - 1)>>
           \o Let(SubSeq(s, i + Len(sep), Len(s)), LAMBDA rest : split(rest, sep)))

\* s[:n] and s[n:]
SliceTo(s, n) == SubSeq(s, 1, IF n < Len(s) THEN n ELSE Len(s))
SliceFrom(s, n) == SubSeq(s, n + 1, Len(s))

\* An optional sign is stripped by float() and int().
HasSign(s) == Len(s) > 0 /\ s[1] \in {"+", "-"}
Unsigned(s) == IF HasSign(s) THEN SubSeq(s, 2, Len(s)) ELSE s
SignOf(s) == IF Len(s) > 0 /\ s[1] = "-" THEN -1 ELSE 1

\* Fractional digits as an integer number of 1/Scale.
FracVal(f) ==
  IF Len(f) <= FracDigits THEN NatVal(f) * Pow10(FracDigits - Len(f))
  ELSE NatValUpTo(f, FracDigits)

\* A decimal literal with sign sgn, integer digits ip and fractional digits
\* fp.  ok = FALSE is ValueError.
Decimal(sgn, ip, fp) ==
  IF AllDigits(ip) /\ AllDigits(fp) /\ Len(ip) + Len(fp) > 0
  THEN [ok |-> TRUE, val |-> sgn * (NatVal(ip) * Scale + FracVal(fp))]
  ELSE [ok |-> FALSE, val |-> 0]

\* float(s) for decimal literals: [sign] digits [. digits], at least one
\* digit.  (Exponents, inf, nan, blanks and underscores do not occur in the
\* inputs explored.)
float(s) ==
  Let(Unsigned(s), LAMBDA u :
    Let(find(u, Dot), LAMBDA d :
      IF d = 0 THEN Decimal(SignOf(s), u, <<>>)
      ELSE Let(SubSeq(u, 1, d - 1), LAMBDA ip :
             Let(SubSeq(u, d + 1, Len(u)), LAMBDA fp : Decimal(SignOf(s), ip, fp)))))

\* int(s) for decimal literals: [sign] digits.  ok = FALSE is ValueError.
int(s) ==
  Let(Unsigned(s), LAMBDA u :
    IF AllDigits(u) /\ Len(u) > 0
    THEN [ok |-> TRUE, val |-> SignOf(s) * NatVal(u)]
    ELSE [ok |-> FALSE, val |-> 0])

\* int(x) of a float: truncation toward zero of n/d, d > 0.
Trunc(n, d) == IF n >= 0 THEN n \div d ELSE -((-n) \div d)

\* parts[k] with Python's zero-based index
At(parts, k) == parts[k + 1]

-----------------------------------------------------------------------------
(* GpsModule *)

\* 1.852 km/h per knot, in thousandths.
KnotsToKmhMilli == 1852

SouthWest == {<<"S">>, <<"W">>}

\* The fix fields of a GpsModule object right after resetGpsData.
resetGpsData ==
  [latitude |-> None, longitude |-> None,
   latitudeDirection |-> None, longitudeDirection |-> None,
   speed |-> None, altitude |-> None, fixQuality |-> None,
   numSatellites |-> None, hdop |-> None, time |-> None, date |-> None]

\* Outcome of a method: the object's fields after it, and whether it ended
\* with an uncaught ValueError.
Returns(self) == [self |-> self, exc |-> FALSE]
Raises(self) == [self |-> self, exc |-> TRUE]

\* degree + (minute / 60), negated for S and W; in units of 1/(60*Scale).
Signed(decimal, direction) == IF direction \in SouthWest THEN -decimal ELSE decimal

\* convertToDecimal(degreeMin, direction): exc = TRUE is an uncaught
\* ValueError of float(); otherwise the pair (decimal, direction).
convertToDecimal(degreeMin, direction) ==
  IF degreeMin = <<>> \/ direction = <<>>
  THEN [exc |-> FALSE, decimal |-> None, direction |-> None]
  ELSE Let(float(SliceTo(degreeMin, 2)), LAMBDA degree :
         Let(float(SliceFrom(degreeMin, 2)), LAMBDA minute :
           IF ~degree.ok \/ ~minute.ok
           THEN [exc |-> TRUE, decimal |-> None, direction |-> None]
           ELSE [exc |-> FALSE,
                 decimal |-> Some(Signed(degree.val * 60 + minute.val, direction)),
                 direction |-> Some(direction)]))

\* convertToDecimalDegree without the division of the minutes by 60.
convertToDecimalDegree_NoMinuteDivision(value, direction) ==
  Signed(Trunc(value, 100 * 60 * Scale) * 60 * Scale + (value % (100 * 60 * Scale)),
         direction)

\* convertToDecimalDegree(value, direction); value is the float stored by
\* float(parts[k]), in units of 1/(60*Scale).
convertToDecimalDegree(value, direction) ==
  Signed(Trunc(value, 100 * 60 * Scale) * 60 * Scale
           + (value % (100 * 60 * Scale)) \div 60,
         direction)

\* Line 47: self.speed = float(parts[7]) * 1.852 if parts[7] else None,
\* then line 48: self.date = parts[9].
RmcSpeedDate(self, parts) ==
  IF At(parts, 7) = <<>>
  THEN Returns([self EXCEPT !.speed = None, !.date = Some(At(parts, 9))])
  ELSE Let(float(At(parts, 7)), LAMBDA spd :
         IF ~spd.ok THEN Raises(self)
         ELSE Returns([self EXCEPT !.speed = Some(spd.val * KnotsToKmhMilli),
                                   !.date = Some(At(parts, 9))]))

\* Line 46, then the rest.
RmcLongitude(self, parts) ==
  Let(convertToDecimal(At(parts, 5), At(parts, 6)), LAMBDA lon :
    IF lon.exc THEN Raises(self)
    ELSE Let([self EXCEPT !.longitude = lon.decimal,
                          !.longitudeDirection = lon.direction],
             LAMBDA s : RmcSpeedDate(s, parts)))

\* Line 45, then the rest.
RmcLatitude(self, parts) ==
  Let(convertToDecimal(At(parts, 3), At(parts, 4)), LAMBDA lat :
    IF lat.exc THEN Raises(self)
    ELSE Let([self EXCEPT !.latitude = lat.decimal,
                          !.latitudeDirection = lat.direction],
             LAMBDA s : RmcLongitude(s, parts)))

\* parseGprmcSentence without the status test of line 43.
parseGprmcSentence_IgnoreStatus(self, sentence) ==
  Let(split(sentence, Comma), LAMBDA parts :
    Let([self EXCEPT !.time = Some(At(parts, 1))],
        LAMBDA s : RmcLatitude(s, parts)))

\* parseGprmcSentence: the assignments happen in source order, an uncaught
\* ValueError keeps the ones made before it.
parseGprmcSentence(self, sentence) ==
  Let(split(sentence, Comma), LAMBDA parts :
    IF Len(parts) > 2 /\ At(parts, 2) = <<"A">>
    THEN Let([self EXCEPT !.time = Some(At(parts, 1))],
             LAMBDA s : RmcLatitude(s, parts))
    ELSE Returns(self))

\* Lines 63 to 69: time, then both coordinates converted in place.
GgaFinish(self, parts) ==
  Let([self EXCEPT !.time = Some(At(parts, 1)),
                   !.latitude = Some(convertToDecimalDegree(Val(self.latitude),
                                                            Val(self.latitudeDirection)))],
      LAMBDA s :
        [s EXCEPT !.longitude = Some(convertToDecimalDegree(Val(s.longitude),
                                                            Val(s.longitudeDirection)))])

\* Lines 61 and 62: hdop, altitude.
GgaHdopAltitude(self, parts) ==
  Let(float(At(parts, 8)), LAMBDA hd :
    IF ~hd.ok THEN self
    ELSE Let(float(At(parts, 9)), LAMBDA al :
           IF ~al.ok THEN [self EXCEPT !.hdop = Some(hd.val)]
           ELSE Let([self EXCEPT !.hdop = Some(hd.val), !.altitude = Some(al.val)],
                    LAMBDA s : GgaFinish(s, parts))))

\* Lines 59 and 60: fixQuality, numSatellites.
GgaQualitySatellites(self, parts) ==
  Let(int(At(parts, 6)), LAMBDA fq :
    IF ~fq.ok THEN self
    ELSE Let(int(At(parts, 7)), LAMBDA ns :
           IF ~ns.ok THEN [self EXCEPT !.fixQuality = Some(fq.val)]
           ELSE Let([self EXCEPT !.fixQuality = Some(fq.val),
                                 !.numSatellites = Some(ns.val)],
                    LAMBDA s : GgaHdopAltitude(s, parts))))

\* Lines 57 and 58: longitude as the raw float, longitudeDirection.
GgaLongitude(self, parts) ==
  Let(float(At(parts, 4)), LAMBDA lon :
    IF ~lon.ok THEN self
    ELSE Let([self EXCEPT !.longitude = Some(lon.val * 60),
                          !.longitudeDirection = Some(At(parts, 5))],
             LAMBDA s : GgaQualitySatellites(s, parts)))

\* Lines 55 and 56: latitude as the raw float, latitudeDirection.
GgaLatitude(self, parts) ==
  Let(float(At(parts, 2)), LAMBDA lat :
    IF ~lat.ok THEN self
    ELSE Let([self EXCEPT !.latitude = Some(lat.val * 60),
                          !.latitudeDirection = Some(At(parts, 3))],
             LAMBDA s : GgaLongitude(s, parts)))

\* parseGpggaSentence: the fields after the call.  ValueError is caught
\* (lines 70, 71): the assignments made before it stay.
parseGpggaSentence(self, sentence) ==
  Let(split(sentence, Comma), LAMBDA parts :
    IF Len(parts) < 15 THEN self ELSE GgaLatitude(self, parts))

\* parseGpvtgSentence that clears every field on an empty speed field.
parseGpvtgSentence_EmptyClearsAll(self, sentence) ==
  Let(split(sentence, Comma), LAMBDA parts :
    IF At(parts, 7) = <<>> THEN Returns(resetGpsData)
    ELSE Let(float(At(parts, 7)), LAMBDA spd :
           IF ~spd.ok THEN Raises(self)
           ELSE Returns([self EXCEPT !.speed = Some(spd.val * 1000)])))

\* parseGpvtgSentence: speed in km/h from parts[7], None when it is empty;
\* float() raises ValueError on a non-numeric field.
parseGpvtgSentence(self, sentence) ==
  Let(split(sentence, Comma), LAMBDA parts :
    IF At(parts, 7) = <<>> THEN Returns([self EXCEPT !.speed = None])
    ELSE Let(float(At(parts, 7)), LAMBDA spd :
           IF ~spd.ok THEN Raises(self)
           ELSE Returns([self EXCEPT !.speed = Some(spd.val * 1000)])))

TagRMC == <<"$", "G", "P", "R", "M", "C">>
TagGGA == <<"$", "G", "P", "G", "G", "A">>
TagVTG == <<"$", "G", "P", "V", "T", "G">>

\* len(line.split(','))
FieldCount(line) == Len(split(line, Comma))

\* processLine matching the type code after any two-letter talker.
processLine_AnyTalker(self, line) ==
  IF Len(line) >= 6 /\ line[1] = "$" /\ SubSeq(line, 4, 6) = <<"R", "M", "C">>
  THEN IF FieldCount(line) >= 10 THEN parseGprmcSentence(self, line) ELSE Returns(self)
  ELSE IF Len(line) >= 6 /\ line[1] = "$" /\ SubSeq(line, 4, 6) = <<"G", "G", "A">>
  THEN IF FieldCount(line) >= 15 THEN Returns(parseGpggaSentence(self, line))
       ELSE Returns(self)
  ELSE IF Len(line) >= 6 /\ line[1] = "$" /\ SubSeq(line, 4, 6) = <<"V", "T", "G">>
  THEN IF FieldCount(line) >= 8 THEN parseGpvtgSentence(self, line) ELSE Returns(self)
  ELSE Returns(self)

\* processLine decoding every other $GP line of at least 10 fields as RMC.
processLine_UnknownTagAsRmc(self, line) ==
  IF startswith(line, TagRMC)
  THEN IF FieldCount(line) >= 10 THEN parseGprmcSentence(self, line) ELSE Returns(self)
  ELSE IF startswith(line, TagGGA)
  THEN IF FieldCount(line) >= 15 THEN Returns(parseGpggaSentence(self, line))
       ELSE Returns(self)
  ELSE IF startswith(line, TagVTG)
  THEN IF FieldCount(line) >= 8 THEN parseGpvtgSentence(self, line) ELSE Returns(self)
  ELSE IF startswith(line, <<"$", "G", "P">>) /\ FieldCount(line) >= 10
  THEN parseGprmcSentence(self, line)
  ELSE Returns(self)

\* Body of the for loop of readData: classify one line and decode it.
processLine(self, line) ==
  IF startswith(line, TagRMC)
  THEN IF FieldCount(line) >= 10 THEN parseGprmcSentence(self, line) ELSE Returns(self)
  ELSE IF startswith(line, TagGGA)
  THEN IF FieldCount(line) >= 15 THEN Returns(parseGpggaSentence(self, line))
       ELSE Returns(self)
  ELSE IF startswith(line, TagVTG)
  THEN IF FieldCount(line) >= 8 THEN parseGpvtgSentence(self, line) ELSE Returns(self)
  ELSE Returns(self)

\* The for loop: lines in order, an exception ends the loop and propagates.
RECURSIVE processLines(_, _)
processLines(self, lines) ==
  IF Len(lines) = 0 THEN Returns(self)
  ELSE Let(processLine(self, Head(lines)), LAMBDA r :
         IF r.exc THEN r ELSE processLines(r.self, Tail(lines)))

\* The line framer of readData: gpsData.split('\r\n').
frame(gpsData) == split(gpsData, CRLF)

\* readData on the bytes bb_serial_read returned (count = Len(bytes)).
readData(self, bytes) ==
  IF Len(bytes) = 0 THEN Returns(self)
  ELSE Let(frame(bytes), LAMBDA lines : processLines(self, lines))

-----------------------------------------------------------------------------
(* Inputs: the sentences of the specification's examples and their
   one-field variations, framed into buffers. *)

RECURSIVE Join(_, _)
Join(fields, sep) ==
  IF Len(fields) = 0 THEN <<>>
  ELSE IF Len(fields) = 1 THEN fields[1]
  ELSE fields[1] \o sep \o Join(Tail(fields), sep)

\* fields with parts[k] replaced by v
With(fields, k, v) == [fields EXCEPT ![k + 1] = v]

Empty == <<>>
Junk == <<"x">>

\* $GPRMC,123519,A,4807.038,N,01131.000,E,022.4,084.4,230394,,
RmcBase ==
  <<TagRMC, <<"1", "2", "3", "5", "1", "9">>, <<"A">>, <<"4", "8", "0", "7", ".", "0", "3", "8">>, <<"N">>,
    <<"0", "1", "1", "3", "1", ".", "0", "0", "0">>, <<"E">>, <<"0", "2", "2", ".", "4">>, <<"0", "8", "4", ".", "4">>,
    <<"2", "3", "0", "3", "9", "4">>, Empty, Empty>>

\* $GPGGA,123520,4807.038,N,01131.000,E,1,08,0.9,545.4,M,46.9,M,,*47
GgaBase ==
  <<TagGGA, <<"1", "2", "3", "5", "2", "0">>, <<"4", "8", "0", "7", ".", "0", "3", "8">>, <<"N">>,
    <<"0", "1", "1", "3", "1", ".", "0", "0", "0">>, <<"E">>, <<"1">>, <<"0", "8">>, <<"0", ".", "9">>,
    <<"5", "4", "5", ".", "4">>, <<"M">>, <<"4", "6", ".", "9">>, <<"M">>, Empty, <<"*", "4", "7">>>>

\* $GPVTG,054.7,T,034.4,M,005.5,N,010.2,K
VtgBase ==
  <<TagVTG, <<"0", "5", "4", ".", "7">>, <<"T">>, <<"0", "3", "4", ".", "4">>, <<"M">>,
    <<"0", "0", "5", ".", "5">>, <<"N">>, <<"0", "1", "0", ".", "2">>, <<"K">>>>

TagGNRMC == <<"$", "G", "N", "R", "M", "C">>
TagGLGGA == <<"$", "G", "L", "G", "G", "A">>
TagGNVTG == <<"$", "G", "N", "V", "T", "G">>
TagZZZ == <<"$", "G", "P", "Z", "Z", "Z">>

\* <<k, v>>: replace parts[k] by v.
RmcEdits ==
  {<<0, TagRMC>>, <<0, TagGNRMC>>, <<2, <<"V">>>>, <<3, Empty>>, <<4, Empty>>,
   <<2, Empty>>, <<4, <<"S">>>>, <<5, Empty>>, <<6, <<"W">>>>, <<7, Empty>>, <<7, Junk>>,
   <<3, <<"8", "9", "5", "9", ".", "9", "9", "9">>>>, <<5, <<"1", "7", "9", "5", "9", ".", "9", "9", "9">>>>}

GgaEdits ==
  {<<0, TagGGA>>, <<0, TagGLGGA>>, <<2, Junk>>, <<4, Junk>>, <<6, Junk>>,
   <<7, Junk>>, <<8, Junk>>, <<9, Junk>>, <<3, <<"S">>>>, <<5, <<"W">>>>}

VtgEdits == {<<0, TagVTG>>, <<0, TagGNVTG>>, <<7, Empty>>, <<7, Junk>>}

RmcLine(e) == Join(With(RmcBase, e[1], e[2]), Comma)
GgaLine(e) == Join(With(GgaBase, e[1], e[2]), Comma)
VtgLine(e) == Join(With(VtgBase, e[1], e[2]), Comma)

RmcLines == {RmcLine(e) : e \in RmcEdits}
GgaLines == {GgaLine(e) : e \in GgaEdits}
VtgLines == {VtgLine(e) : e \in VtgEdits}

\* Recognised tags with one field too few, an unknown tag, no leading '$'.
ShortLines ==
  {Join(SubSeq(RmcBase, 1, 9), Comma), Join(SubSeq(GgaBase, 1, 14), Comma),
   Join(SubSeq(VtgBase, 1, 7), Comma)}
OtherLines == {Join(With(RmcBase, 0, TagZZZ), Comma), Tail(Join(RmcBase, Comma))}

\* A GGA line of the southern hemisphere whose altitude is not numeric.
GgaSouthBadAltitude == Join(With(With(GgaBase, 3, <<"S">>), 9, Junk), Comma)

Lines ==
  RmcLines \cup GgaLines \cup VtgLines \cup ShortLines \cup OtherLines
    \cup {GgaSouthBadAltitude}

RmcOk == RmcLine(<<0, TagRMC>>)
GgaOk == GgaLine(<<0, TagGGA>>)
VtgOk == VtgLine(<<0, TagVTG>>)

\* Buffers of two lines: <<first, second>>.
Pairs ==
  {<<RmcOk, GgaOk>>, <<GgaOk, RmcOk>>, <<RmcLine(<<7, Junk>>), GgaOk>>,
   <<VtgLine(<<7, Junk>>), GgaOk>>, <<VtgOk, RmcOk>>}

\* What bb_serial_read can return: nothing, one terminated line, one
\* unterminated line, two lines of which the second may be unterminated.
Buffers ==
  {<<>>}
    \cup {l \o CRLF : l \in Lines}
    \cup {RmcOk, GgaOk, VtgOk}
    \cup {p[1] \o CRLF \o p[2] \o CRLF : p \in Pairs}
    \cup {p[1] \o CRLF \o p[2] : p \in Pairs}

-----------------------------------------------------------------------------
(* Coordinate texts of the protocol *)

\* A DDMM.mmmm (degDigits = 2) or DDDMM.mmmm (degDigits = 3) text: digits,
\* minutes below 60, at most maxDeg degrees.
ValidCoord(t, degDigits, maxDeg) ==
  /\ Len(t) > degDigits + 3
  /\ t[degDigits + 3] = "."
  /\ AllDigits(SubSeq(t, 1, degDigits + 2))
  /\ AllDigits(SubSeq(t, degDigits + 4, Len(t)))
  /\ NatVal(SubSeq(t, degDigits + 1, degDigits + 2)) < 60
  /\ NatVal(SubSeq(t, 1, degDigits)) * 60 * Scale + float(SubSeq(t, degDigits + 1, Len(t))).val
       <= maxDeg * 60 * Scale

ValidLat(t) == ValidCoord(t, 2, 90)
ValidLon(t) == ValidCoord(t, 3, 180)

\* The line is dispatched to a decoder by readData.
IsRmc(line) == startswith(line, TagRMC) /\ FieldCount(line) >= 10
IsGga(line) == startswith(line, TagGGA) /\ FieldCount(line) >= 15
IsVtg(line) == startswith(line, TagVTG) /\ FieldCount(line) >= 8

\* The coordinate fields of a dispatched line are valid coordinate texts.
LineCoordsValid(line) ==
  Let(split(line, Comma), LAMBDA parts :
    /\ IsRmc(line) => ValidLat(At(parts, 3)) /\ ValidLon(At(parts, 5))
    /\ IsGga(line) => ValidLat(At(parts, 2)) /\ ValidLon(At(parts, 4)))

BufferCoordsValid(bytes) ==
  Let(frame(bytes), LAMBDA lines : \A i \in 1..Len(lines) : LineCoordsValid(lines[i]))

\* The buffers all of whose dispatched lines have valid coordinate fields.
ValidBuffers == {bytes \in Buffers : BufferCoordsValid(bytes)}

-----------------------------------------------------------------------------
(* State *)

VARIABLES
  gps,         \* the fix fields of the GpsModule object
  snapshot,    \* the dict the last returning getGpsDetails returned, or None
  data,        \* the bytes bb_serial_read returned to the last call
  prev,        \* the fix fields when the last operation was entered
  raised,      \* the last operation ended with an uncaught ValueError
  op,          \* the last operation
  calls,       \* number of getGpsDetails calls so far
  coordsValid, \* every sentence read since the last reset had valid coordinate fields
  resetFrom    \* the fields cleared by the resetGpsData just before the last
               \* operation, None when no resetGpsData came just before it

vars == <<gps, snapshot, data, prev, raised, op, calls, coordsValid, resetFrom>>

\* __init__ ends with resetGpsData().
Init ==
  /\ gps = resetGpsData
  /\ snapshot = None
  /\ data = <<>>
  /\ prev = resetGpsData
  /\ raised = FALSE
  /\ op = "init"
  /\ calls = 0
  /\ coordsValid = TRUE
  /\ resetFrom = None

\* getGpsDetails: readData, then the dict of the fields; an exception of
\* readData leaves no dict returned.
getGpsDetails(bytes) ==
  /\ calls < MaxCalls
  /\ \E r \in {readData(gps, bytes)} :
       /\ gps' = r.self
       /\ raised' = r.exc
       /\ snapshot' = IF r.exc THEN snapshot ELSE Some(r.self)
  /\ data' = bytes
  /\ prev' = gps
  /\ op' = "getGpsDetails"
  /\ calls' = calls + 1
  /\ coordsValid' = (coordsValid /\ bytes \in ValidBuffers)
  /\ resetFrom' = IF op = "resetGpsData" THEN Some(prev) ELSE None

\* resetGpsData that leaves the speed as it is.
ResetGpsData_KeepsSpeed ==
  /\ op # "resetGpsData"
  /\ gps' = [resetGpsData EXCEPT !.speed = gps.speed]
  /\ prev' = gps
  /\ raised' = FALSE
  /\ op' = "resetGpsData"
  /\ coordsValid' = TRUE
  /\ resetFrom' = None
  /\ UNCHANGED <<snapshot, data, calls>>

ResetGpsData ==
  /\ op # "resetGpsData"
  /\ gps' = resetGpsData
  /\ prev' = gps
  /\ raised' = FALSE
  /\ op' = "resetGpsData"
  /\ coordsValid' = TRUE
  /\ resetFrom' = None
  /\ UNCHANGED <<snapshot, data, calls>>

GetGpsDetails == \E bytes \in Buffers : getGpsDetails(bytes)

Next == GetGpsDetails \/ ResetGpsData

Spec == Init /\ [][Next]_vars

-----------------------------------------------------------------------------
(* The last call, as the properties below see it *)

Called == op = "getGpsDetails"

\* The buffer of the last call was exactly one CRLF-terminated line.
OneLine ==
  Called /\ Let(frame(data), LAMBDA lines : Len(lines) = 2 /\ lines[2] = <<>>)

TheLine == frame(data)[1]
TheParts == split(TheLine, Comma)

FixFields ==
  {"latitude", "longitude", "latitudeDirection", "longitudeDirection", "speed",
   "altitude", "fixQuality", "numSatellites", "hdop", "time", "date"}

\* degrees + minutes/60 from the leading degDigits characters and the rest,
\* negated for S and W (units of 1/(60*Scale)).
SpecDecimal(t, degDigits, direction) ==
  Signed(float(SliceTo(t, degDigits)).val * 60 + float(SliceFrom(t, degDigits)).val,
         direction)

-----------------------------------------------------------------------------
(* Properties *)

\* A numeric field of a GGA sentence fails numeric parsing.
GgaNumericFailure(parts) ==
  \/ ~float(At(parts, 2)).ok
  \/ ~float(At(parts, 4)).ok
  \/ ~int(At(parts, 6)).ok
  \/ ~int(At(parts, 7)).ok
  \/ ~float(At(parts, 8)).ok
  \/ ~float(At(parts, 9)).ok

GgaFields ==
  {"latitude", "longitude", "latitudeDirection", "longitudeDirection",
   "fixQuality", "numSatellites", "hdop", "altitude", "time"}

\* C1: a GGA line with at least 15 fields in which a numeric field fails
\* numeric parsing leaves latitude, longitude, their directions, fixQuality,
\* numSatellites, hdop, altitude and time as they were before the line.
C1_GgaAllOrNothing ==
  (OneLine /\ IsGga(TheLine) /\ GgaNumericFailure(TheParts))
    => \A f \in GgaFields : gps[f] = prev[f]

\* C2: a call never turns a present field back to absent; only reset does.
C2_LastGoodValue ==
  Called => \A f \in FixFields : prev[f] # None => gps[f] # None

\* C3: as long as every sentence read carried valid coordinate fields, a
\* present latitude lies in [-90, 90] and a present longitude in [-180, 180].
C3_CoordinateRange ==
  coordsValid =>
    /\ gps.latitude # None =>
         /\ Val(gps.latitude) >= -(90 * 60 * Scale)
         /\ Val(gps.latitude) <= 90 * 60 * Scale
    /\ gps.longitude # None =>
         /\ Val(gps.longitude) >= -(180 * 60 * Scale)
         /\ Val(gps.longitude) <= 180 * 60 * Scale

\* The last call read one active RMC line with valid coordinate texts and
\* hemisphere letters, and returned.
ActiveRmcRead ==
  /\ OneLine
  /\ IsRmc(TheLine)
  /\ ~raised
  /\ Let(TheParts, LAMBDA parts :
       /\ At(parts, 2) = <<"A">>
       /\ ValidLat(At(parts, 3)) /\ At(parts, 4) \in {<<"N">>, <<"S">>}
       /\ ValidLon(At(parts, 5)) /\ At(parts, 6) \in {<<"E">>, <<"W">>})

\* What a GGA sentence stores for the coordinate text t and hemisphere.
GgaStored(t, direction) == Some(convertToDecimalDegree(float(t).val * 60, direction))

\* C4: an active RMC sentence stores the decimal degrees that a GGA sentence
\* with the same coordinate texts and hemispheres stores.
C4_PathsAgree ==
  ActiveRmcRead =>
    Let(TheParts, LAMBDA parts :
      /\ gps.latitude = GgaStored(At(parts, 3), At(parts, 4))
      /\ gps.longitude = GgaStored(At(parts, 5), At(parts, 6)))

\* C5: an active RMC sentence stores latitude as the two leading characters of
\* field 3 in degrees plus the rest in minutes / 60, and longitude as the
\* three leading characters of field 5 plus the rest / 60, negated for S, W.
C5_RmcDecoding ==
  ActiveRmcRead =>
    Let(TheParts, LAMBDA parts :
      /\ gps.latitude = Some(SpecDecimal(At(parts, 3), 2, At(parts, 4)))
      /\ gps.longitude = Some(SpecDecimal(At(parts, 5), 3, At(parts, 6))))

\* C6: an RMC line with at least 10 fields whose status field is not 'A'
\* leaves all eleven fields unchanged and raises no error.
C6_VoidRmcInert ==
  (OneLine /\ IsRmc(TheLine) /\ At(TheParts, 2) # <<"A">>)
    => gps = prev /\ ~raised

\* A void RMC line was read by an object that already held a fix.
C6_Witness ==
  /\ OneLine /\ IsRmc(TheLine) /\ At(TheParts, 2) = <<"V">>
  /\ prev.latitude # None /\ prev.speed # None /\ prev.altitude # None

\* An active RMC line (valid coordinates) or a VTG line whose speed field is
\* neither empty nor numeric.
BadSpeedLine(line) ==
  Let(split(line, Comma), LAMBDA parts :
    /\ \/ /\ IsRmc(line) /\ At(parts, 2) = <<"A">>
          /\ ValidLat(At(parts, 3)) /\ At(parts, 4) # <<>>
          /\ ValidLon(At(parts, 5)) /\ At(parts, 6) # <<>>
       \/ IsVtg(line)
    /\ At(parts, 7) # <<>>
    /\ ~float(At(parts, 7)).ok)

\* C7: a non-numeric speed field in an active RMC or a VTG sentence is
\* absorbed: the call returns, the RMC sentence's time, latitude, longitude
\* and date are applied, and the sentence after it in the buffer is decoded.
C7_SpeedFailureAbsorbed ==
  Called =>
    Let(frame(data), LAMBDA lines :
      BadSpeedLine(lines[1]) =>
        /\ ~raised
        /\ (IsRmc(lines[1]) /\ Len(lines) = 2) =>
             Let(split(lines[1], Comma), LAMBDA parts :
               /\ gps.time = Some(At(parts, 1))
               /\ gps.latitude # None /\ gps.longitude # None
               /\ gps.date = Some(At(parts, 9)))
        /\ (Len(lines) = 3 /\ IsGga(lines[2])) =>
             Let(split(lines[2], Comma), LAMBDA parts :
               ~GgaNumericFailure(parts) => gps.altitude = Some(float(At(parts, 9)).val)))

\* The buffer up to and including its last CRLF.
Terminated(bytes) ==
  Let(frame(bytes), LAMBDA lines :
    IF Len(lines) = 1 THEN <<>>
    ELSE Join(SubSeq(lines, 1, Len(lines) - 1), CRLF) \o CRLF)

\* C8: the bytes after the last CRLF are discarded: a call changes the fields
\* as the terminated part of its buffer alone does.
C8_FragmentDiscarded ==
  Called => gps = readData(prev, Terminated(data)).self

\* A GGA line that decodes: numeric fields parse, coordinates are valid.
GgaDecodes(line) ==
  /\ IsGga(line)
  /\ Let(split(line, Comma), LAMBDA parts :
       /\ ~GgaNumericFailure(parts)
       /\ ValidLat(At(parts, 2)) /\ ValidLon(At(parts, 4)))

\* An active RMC line with valid coordinates and a numeric speed.
RmcDecodes(line) ==
  /\ IsRmc(line)
  /\ Let(split(line, Comma), LAMBDA parts :
       /\ At(parts, 2) = <<"A">>
       /\ ValidLat(At(parts, 3)) /\ At(parts, 4) # <<>>
       /\ ValidLon(At(parts, 5)) /\ At(parts, 6) # <<>>
       /\ float(At(parts, 7)).ok)

\* The fields hold what the GGA sentence carries.
GgaApplied(parts) ==
  /\ gps.latitude = Some(SpecDecimal(At(parts, 2), 2, At(parts, 3)))
  /\ gps.longitude = Some(SpecDecimal(At(parts, 4), 3, At(parts, 5)))
  /\ gps.latitudeDirection = Some(At(parts, 3))
  /\ gps.longitudeDirection = Some(At(parts, 5))
  /\ gps.fixQuality = Some(int(At(parts, 6)).val)
  /\ gps.numSatellites = Some(int(At(parts, 7)).val)
  /\ gps.hdop = Some(float(At(parts, 8)).val)
  /\ gps.altitude = Some(float(At(parts, 9)).val)
  /\ gps.time = Some(At(parts, 1))

ExampleBuffer == RmcOk \o CRLF \o GgaOk \o CRLF

\* C9: after an active RMC sentence with a speed and then a decoded GGA
\* sentence, the snapshot holds the GGA's latitude, longitude, fixQuality,
\* numSatellites, hdop, altitude and time, and the RMC's speed and date; for
\* the example: 48.1173, 11.5167, 1, 8 and 22.4 * 1.852.
C9_RmcThenGga ==
  Called =>
    Let(frame(data), LAMBDA lines :
      /\ (Len(lines) = 3 /\ lines[3] = <<>> /\ RmcDecodes(lines[1]) /\ GgaDecodes(lines[2])) =>
           /\ ~raised /\ snapshot = Some(gps)
           /\ GgaApplied(split(lines[2], Comma))
           /\ gps.speed = Some(float(At(split(lines[1], Comma), 7)).val * KnotsToKmhMilli)
           /\ gps.date = Some(At(split(lines[1], Comma), 9))
      /\ (Len(lines) = 2 /\ lines[2] = <<>> /\ GgaDecodes(lines[1])) =>
           /\ ~raised /\ snapshot = Some(gps)
           /\ GgaApplied(split(lines[1], Comma))
           /\ gps.speed = prev.speed /\ gps.date = prev.date
      /\ data = ExampleBuffer =>
           /\ Val(snapshot).latitude = Some((48 * 60 + 7) * Scale + 38)
           /\ Val(snapshot).longitude = Some((11 * 60 + 31) * Scale)
           /\ Val(snapshot).fixQuality = Some(1)
           /\ Val(snapshot).numSatellites = Some(8)
           /\ Val(snapshot).speed = Some((22 * Scale + 400) * KnotsToKmhMilli))

\* The example buffer was read, or its GGA sentence by an object whose speed
\* and date an earlier RMC sentence had set.
C9_Witness ==
  /\ Called /\ ~raised
  /\ \/ data = ExampleBuffer /\ prev.speed = None
     \/ /\ data = GgaOk \o CRLF
        /\ prev.speed = Some((22 * Scale + 400) * KnotsToKmhMilli)
        /\ prev.longitude # gps.longitude

\* The tag is '$', two letters and the type code, as chars 4 to 6.
TypeCode(line) == IF Len(line) >= 6 /\ line[1] = "$" THEN SubSeq(line, 4, 6) ELSE <<>>
Talker(line) == SubSeq(line, 2, 3)
MinFields(code) ==
  IF code = <<"R", "M", "C">> THEN 10 ELSE IF code = <<"G", "G", "A">> THEN 15 ELSE 8

\* A line of a known type with its minimum field count, whatever its talker.
KnownSentence(line) ==
  /\ TypeCode(line) \in {<<"R", "M", "C">>, <<"G", "G", "A">>, <<"V", "T", "G">>}
  /\ FieldCount(line) >= MinFields(TypeCode(line))

\* The same line with the talker GP.
AsGp(line) == <<"$", "G", "P">> \o SubSeq(line, 4, Len(line))

\* C10 as stated: a known sentence with any talker is decoded like the
\* corresponding $GP sentence.
C10_AnyTalkerAccepted ==
  (OneLine /\ KnownSentence(TheLine)) =>
    Let(readData(prev, AsGp(TheLine) \o CRLF), LAMBDA r :
      gps = r.self /\ raised = r.exc)

\* C10 amended: only the talker GP is accepted; a known sentence with another
\* talker leaves every field unchanged and raises no error.
C10_OnlyGpTalker ==
  (OneLine /\ KnownSentence(TheLine) /\ Talker(TheLine) # <<"G", "P">>)
    => gps = prev /\ ~raised

\* A $GNRMC, $GLGGA or $GNVTG line was read by an object holding a fix.
C10_Witness ==
  /\ OneLine /\ KnownSentence(TheLine) /\ Talker(TheLine) # <<"G", "P">>
  /\ prev.latitude # None /\ prev.speed # None

-----------------------------------------------------------------------------
(* Lines the classifier rejects *)

\* The first six characters of the line.
Tag(line) == SliceTo(line, 6)

\* An unknown tag, no leading '$', or a $GP tag with fewer than its minimum
\* number of fields.
Rejected(line) ==
  \/ Len(line) = 0
  \/ line[1] # "$"
  \/ Tag(line) \notin {TagRMC, TagGGA, TagVTG}
  \/ FieldCount(line) < MinFields(SubSeq(Tag(line), 4, 6))

\* C11: a line with an unknown tag, without a leading '$', or of a recognised
\* tag with fewer than its minimum number of fields (RMC 10, GGA 15, VTG 8)
\* leaves every field unchanged and raises no error.
C11_RejectedLineInert ==
  (OneLine /\ Rejected(TheLine)) => gps = prev /\ ~raised

\* A $GPZZZ line, a line without '$' or a short line was read by an object
\* holding a fix.
C11_Witness ==
  /\ OneLine /\ TheLine \in ShortLines \cup OtherLines
  /\ prev.latitude # None /\ prev.speed # None /\ prev.altitude # None

-----------------------------------------------------------------------------
(* resetGpsData followed by getGpsDetails *)

\* The last operation was a getGpsDetails entered right after resetGpsData.
ResetThenSnapshot == Called /\ resetFrom # None

\* Every line of the buffer is one the classifier rejects (an empty buffer
\* has none).
NoSentence(bytes) ==
  Let(frame(bytes), LAMBDA lines : \A i \in 1..Len(lines) : Rejected(lines[i]))

AllAbsent(record) == \A f \in FixFields : record[f] = None

-----------------------------------------------------------------------------
(* VTG sentences without a speed *)

\* The last call read one VTG line of at least 8 fields whose field 7 is empty.
EmptySpeedVtg == OneLine /\ IsVtg(TheLine) /\ At(TheParts, 7) = <<>>

\* C13: a VTG sentence of at least 8 fields with an empty speed field leaves
\* every field other than speed as it was.
C13_EmptySpeedVtgKeepsOthers ==
  EmptySpeedVtg => \A f \in FixFields \ {"speed"} : gps[f] = prev[f]

\* Such a sentence was read by an object holding position, altitude, date
\* and speed.
C13_Witness ==
  /\ EmptySpeedVtg
  /\ prev.latitude # None /\ prev.altitude # None /\ prev.date # None
  /\ prev.speed # None

-----------------------------------------------------------------------------
(* Sign and hemisphere *)

\* The value is present exactly when the direction is, and a present value
\* is <= 0 for S and W and >= 0 for any other direction.
SignAgrees(value, direction) ==
  /\ (value # None) <=> (direction # None)
  /\ (value # None /\ direction # None) =>
       IF Val(direction) \in SouthWest THEN Val(value) <= 0 ELSE Val(value) >= 0

\* C14: in every reachable state latitude is present exactly when
\* latitudeDirection is, longitude exactly when longitudeDirection is, and
\* the sign of each value agrees with its direction (<= 0 for S and W, >= 0
\* otherwise), also after a GGA sentence that fails at a numeric field.
C14_SignMatchesHemisphere ==
  /\ SignAgrees(gps.latitude, gps.latitudeDirection)
  /\ SignAgrees(gps.longitude, gps.longitudeDirection)

=============================================================================
